---------------------------- MODULE Spec2Model ----------------------------
(***************************************************************************)
(* Model of the Mini-PharmAtlas MCP servers:                               *)
(*   drugdisease   = src/mcp_server/FunctionalMCP/mcpserver_drugdisease.py *)
(*   diseaseEntity = src/mcp_server/.ipynb_checkpoints/                    *)
(*                       mcp_diseaseEntity-checkpoint.py                   *)
(*   generic       = src/mcp_server/.ipynb_checkpoints/                    *)
(*                       mcp_generic-checkpoint.py                         *)
(* The three files are variants of one engine: identifier resolver         *)
(* (get_gene_info), knowledge-graph query client (query_translator_kg),    *)
(* association extractor (extract_associations /                           *)
(* extract_disease_associations) and the call_tool handlers.               *)
(*                                                                         *)
(* Python values are modelled as follows.  A dict is a record whose        *)
(* missing keys hold Absent.  A str(e) / f-string is a tuple of the        *)
(* literal prefix and the cause.  A raised exception that leaves a         *)
(* function is the field raised = TRUE of the function's result.           *)
(* The "categories" list of an association record is copied through        *)
(* unchanged by the code and read by nobody; it is left out.               *)
(***************************************************************************)
EXTENDS Integers, Sequences, FiniteSets, TLC

\* ------------------------------------------------------------------ bounds
MaxGenes == 3
MaxLimit == 2
MaxNegLimit == 1
MaxRows == 2
MaxBindings == 2
MaxTally == 11
MaxCount == 2
MaxAssoc == 16
MaxConcGenes == 2

\* ------------------------------------------------------- program constants
DefaultLimit == 5
TopK == 10
DiseaseCap == 20
DisplayCap == 15

\* ---------------------------------------------------------------- universe
Absent == "<absent>"
Servers == {"drugdisease", "diseaseEntity", "generic"}

\* Gene symbols a caller may pass; Upper is str.upper() on them.
Symbols == {"apoe", "APP"}
Upper(s) == IF s = "apoe" THEN "APOE" ELSE s

\* Entity ids and display names the graph service may return.
Ids == {"d1", "d2"}
Names == {"X", "Y"}
NoName == "<noname>"

Min(a, b) == IF a < b THEN a ELSE b
Max(a, b) == IF a > b THEN a ELSE b

\* Python's seq[:n] for any integer n (negative n counts from the end).
SliceTo(s, n) ==
    IF n >= 0 THEN SubSeq(s, 1, Min(n, Len(s)))
    ELSE SubSeq(s, 1, Max(Len(s) + n, 0))

SeqsUpTo(S, n) == UNION {[1..k -> S] : k \in 0..n}

\* =================================================== identifier resolver
\* What the single HTTP GET to NCBI can do.  kind "ok" carries the decoded
\* JSON body: data is a dict or not, data["esearchresult"] is absent, a
\* non-dict or a dict, and ["idlist"] is absent, a list or a non-empty dict.
NcbiOutcome(k, d, e, ik, il) ==
    [kind |-> k, data |-> d, esearch |-> e, idlist_kind |-> ik, idlist |-> il]

NcbiFailures ==
    {NcbiOutcome(k, Absent, Absent, Absent, <<>>) :
        k \in {"connect_error", "timeout", "http_error", "bad_json"}}

NcbiBodies ==
    {NcbiOutcome("ok", "nondict", Absent, Absent, <<>>),
     NcbiOutcome("ok", "dict", Absent, Absent, <<>>),
     NcbiOutcome("ok", "dict", "nondict", Absent, <<>>),
     NcbiOutcome("ok", "dict", "dict", Absent, <<>>),
     NcbiOutcome("ok", "dict", "dict", "dict", <<>>)}
    \cup {NcbiOutcome("ok", "dict", "dict", "list", il) :
            il \in {<<>>, <<"348">>, <<"348", "351">>}}

NcbiOutcomes == NcbiFailures \cup NcbiBodies
NoResponse == NcbiOutcome("none", Absent, Absent, Absent, <<>>)

GeneInfo(sym, id, st, err) ==
    [gene_symbol |-> sym, entrez_id |-> id, status |-> st, error |-> err]
NoGeneInfo == GeneInfo(Absent, Absent, Absent, <<>>)

\* Mutant: a failed request reported as "no match".
GeneInfoErrorAsNotFound(server, sym, cause) ==
    GeneInfo(sym, Absent, "not_found", <<>>)

\* The except branch: the drugdisease variant drops gene_symbol.
GeneInfoError(server, sym, cause) ==
    GeneInfo(IF server = "drugdisease" THEN Absent ELSE sym,
             Absent, "error", <<cause>>)

\* id_list[0]
FirstMatch(id_list) == Head(id_list)

\* get_gene_info: everything after the client is built runs inside try.
GetGeneInfo(server, sym, o) ==
    IF o.kind # "ok" THEN GeneInfoError(server, sym, o.kind)
    ELSE IF o.data # "dict" THEN GeneInfoError(server, sym, "AttributeError")
    ELSE IF o.esearch = Absent THEN GeneInfo(sym, Absent, "not_found", <<>>)
    ELSE IF o.esearch # "dict" THEN GeneInfoError(server, sym, "AttributeError")
    ELSE IF o.idlist_kind = Absent THEN GeneInfo(sym, Absent, "not_found", <<>>)
    ELSE IF o.idlist_kind = "dict" THEN GeneInfoError(server, sym, "KeyError")
    ELSE IF o.idlist # <<>> THEN GeneInfo(sym, FirstMatch(o.idlist), "found", <<>>)
    ELSE GeneInfo(sym, Absent, "not_found", <<>>)

\* ================================================ knowledge-graph values
\* A binding inside node_bindings["n1"]: a dict with an id, a dict without
\* one, or a value that is no dict.
Binding(k, i) == [kind |-> k, id |-> i]
Bindings == {Binding("id", i) : i \in Ids}
            \cup {Binding("no_id", Absent), Binding("nondict", Absent)}

\* A result row: a dict with node_bindings.n1, a dict without it, or a
\* value that is no dict.
Row(k, b) == [kind |-> k, n1 |-> b]

\* A decoded JSON value as query_translator_kg returns it.
\*   shape     : null, number, string, list or dict
\*   has_error : the Python test  "error" in value  (key of a dict,
\*               substring of a string, element of a list)
\*   error     : value["error"] of a dict
\*   message   : Absent, "nondict" or "dict"
\*   results   : Absent (key missing), "null" or the list of rows
\*   graph     : knowledge_graph is Absent, "null" or "dict"
\*   nodes     : id -> Absent (not in the catalogue), NoName (entry without
\*               a name) or the display name
KgValue(sh, he, er, msg, rk, rs, g, nd) ==
    [shape |-> sh, has_error |-> he, error |-> er, message |-> msg,
     results_kind |-> rk, results |-> rs, graph |-> g, nodes |-> nd]

NoNodes == [i \in Ids |-> Absent]
KgError(er) == KgValue("dict", TRUE, er, Absent, Absent, <<>>, Absent, NoNodes)
KgScalar(sh, he) == KgValue(sh, he, <<>>, Absent, Absent, <<>>, Absent, NoNodes)
KgDoc(rs, nd) == KgValue("dict", FALSE, <<>>, "dict", "list", rs, "dict", nd)
KgPending == KgScalar("pending", FALSE)

\* ===================================================== association extractor
Record(i, n, t) == [id |-> i, name |-> n, type |-> t, error |-> <<>>]
ErrorMarker(er) == [id |-> Absent, name |-> Absent, type |-> Absent, error |-> er]

Returned(items) == [raised |-> FALSE, items |-> items]
Raised == [raised |-> TRUE, items |-> <<>>]
ParsingError(cause) == Returned(<<ErrorMarker(<<"Parsing error", cause>>)>>)

\* "Avoid duplicates": the generic variant appends without this test.
AlreadyListed(server, items, node_id) ==
    /\ server # "generic"
    /\ \E k \in 1..Len(items) : items[k].id = node_id

\* The inner loop over one row's target nodes.  Result: the grown list, or
\* exc = TRUE when a statement of the loop body raised.  The generic variant
\* reads knowledge_graph.get("nodes", {}) here, once per bound node; the
\* other two read it once before the loops.
RECURSIVE ExtractNodes(_, _, _, _, _)
ExtractNodes(server, target_nodes, doc, type_label, items) ==
    IF target_nodes = <<>> THEN [exc |-> FALSE, items |-> items]
    ELSE LET node == Head(target_nodes)
             rest == Tail(target_nodes)
             nodes_map == doc.nodes
         IN IF node.kind = "nondict" THEN [exc |-> TRUE, items |-> items]
            ELSE IF server = "generic" /\ doc.graph = "null"
            THEN [exc |-> TRUE, items |-> items]
            ELSE IF node.kind = "id" /\ nodes_map[node.id] # Absent
            THEN LET node_name == IF nodes_map[node.id] = NoName
                                  THEN node.id ELSE nodes_map[node.id]
                 IN IF AlreadyListed(server, items, node.id)
                    THEN ExtractNodes(server, rest, doc, type_label, items)
                    ELSE ExtractNodes(server, rest, doc, type_label,
                             Append(items, Record(node.id, node_name, type_label)))
            ELSE ExtractNodes(server, rest, doc, type_label, items)

\* The outer loop over the result rows.
RECURSIVE ExtractRows(_, _, _, _, _)
ExtractRows(server, results, doc, type_label, items) ==
    IF results = <<>> THEN [exc |-> FALSE, items |-> items]
    ELSE LET result == Head(results)
         IN IF result.kind = "nondict" THEN [exc |-> TRUE, items |-> items]
            ELSE LET target_nodes == IF result.kind = "row" THEN result.n1 ELSE <<>>
                     inner == ExtractNodes(server, target_nodes, doc,
                                           type_label, items)
                 IN IF inner.exc THEN inner
                    ELSE ExtractRows(server, Tail(results), doc,
                                     type_label, inner.items)

\* extract_associations / extract_disease_associations.  The membership
\* test  "error" in kg_result  and the subscript kg_result["error"] stand
\* before the try block.
ExtractAssociations(server, kg_result, type_label) ==
    IF kg_result.shape \in {"null", "number"} THEN Raised
    ELSE IF kg_result.has_error
    THEN IF kg_result.shape = "dict"
         THEN Returned(<<ErrorMarker(kg_result.error)>>)
         ELSE Raised
    ELSE IF kg_result.shape # "dict" THEN ParsingError("AttributeError")
    ELSE IF kg_result.message = Absent THEN Returned(<<>>)
    ELSE IF kg_result.message # "dict" THEN ParsingError("AttributeError")
    ELSE IF server # "generic" /\ kg_result.graph = "null"
    THEN ParsingError("AttributeError")
    ELSE IF kg_result.results_kind = "null" THEN ParsingError("TypeError")
    ELSE LET walk == ExtractRows(server, kg_result.results, kg_result,
                                 type_label, <<>>)
         IN IF walk.exc THEN ParsingError("AttributeError")
            ELSE Returned(walk.items)

\* The label the variant passes: only drugdisease has a type_label.
TypeLabel(server, category) ==
    IF server = "drugdisease" THEN category ELSE Absent


\* ============================================ knowledge-graph query client
\* What the single HTTP POST to the graph service can do; "ok" carries the
\* decoded body.
KgOutcome(k, b) == [kind |-> k, body |-> b]
KgFailureKinds == {"connect_error", "timeout", "http_error", "bad_json"}

\* Mutant: the status of the response is not checked, the body of a non-2xx
\* response is decoded and returned like a document.
QueryTranslatorKgUnchecked(server, o) ==
    IF o.kind \in {"ok", "http_error"} THEN o.body
    ELSE KgError(<<"Connection error", o.kind>>)

\* query_translator_kg: the try/except around post, raise_for_status, json.
QueryTranslatorKg(server, o) ==
    IF o.kind = "ok" THEN o.body
    ELSE IF server = "generic" THEN KgError(<<o.kind>>)
    ELSE IF server = "diseaseEntity" /\ o.kind = "http_error"
    THEN KgError(<<"HTTP Error", o.kind>>)
    ELSE KgError(<<"Connection error", o.kind>>)

\* ------------------------------------------------ bounded graph documents
Rows == {Row("row", b) : b \in SeqsUpTo(Bindings, MaxBindings) \ {<<>>}}
        \cup {Row("no_bindings", <<>>), Row("nondict", <<>>)}
Catalogues == [Ids -> {Absent, NoName} \cup Names]

OneRow(i) == Row("row", <<Binding("id", i)>>)
DocXY == KgDoc(<<OneRow("d1"), OneRow("d2")>>, [i \in Ids |-> IF i = "d1" THEN "X" ELSE "Y"])
DocDupX == KgDoc(<<OneRow("d1"), OneRow("d1")>>, [i \in Ids |-> IF i = "d1" THEN "X" ELSE Absent])
DocSameName == KgDoc(<<Row("row", <<Binding("id", "d1"), Binding("id", "d2")>>)>>, [i \in Ids |-> "X"])
DocEmpty == KgDoc(<<>>, NoNodes)
JsonNull == KgScalar("null", FALSE)

\* Every value the extractor is exercised on in SpecExtract.
OddShapes ==
    {KgScalar(sh, FALSE) : sh \in {"null", "number", "string", "list"}}
    \cup {KgScalar(sh, TRUE) : sh \in {"string", "list"}}
    \cup {KgError(<<"service", "down">>),
          KgValue("dict", FALSE, <<>>, Absent, Absent, <<>>, Absent, NoNodes),
          KgValue("dict", FALSE, <<>>, "nondict", Absent, <<>>, Absent, NoNodes),
          KgValue("dict", FALSE, <<>>, "dict", "null", <<>>, "dict", NoNodes)}
    \cup {KgValue("dict", FALSE, <<>>, "dict", "list", rs, "null", NoNodes) :
            rs \in SeqsUpTo(Rows, 1)}
ClientErrors ==
    {QueryTranslatorKg(sv, KgOutcome(k, JsonNull)) : sv \in Servers, k \in KgFailureKinds}
Documents == {KgDoc(rs, nd) : rs \in SeqsUpTo(Rows, MaxRows), nd \in Catalogues}
AllKgResults == OddShapes \cup ClientErrors \cup Documents

\* The responses the graph service gives in the handler runs.
KgBodies == {DocXY, DocDupX, DocSameName, DocEmpty, JsonNull}
KgOutcomes == {KgOutcome(k, JsonNull) : k \in KgFailureKinds}
              \cup {KgOutcome("ok", b) : b \in KgBodies}

\* ==================================================================== state
VARIABLES
    server,         \* which of the three files is running
    pc,             \* where the running call_tool invocation is suspended
    tool,           \* name argument of call_tool
    arguments,      \* arguments argument of call_tool
    gene_symbols,   \* analyze_gene_list: the truncated, upper-cased list
    idx,            \* analyze_gene_list: position of the for loop
    gene_symbol,    \* the symbol being resolved
    gene_info,      \* last value returned by get_gene_info
    ncbi_response,  \* outcome of the last NCBI request
    kg_result,      \* last value returned by query_translator_kg
    disease_raw,    \* find_gene_interactions: result of task1
    drug_raw,       \* find_gene_interactions: result of task2
    diseases,       \* last extracted disease list
    drugs,          \* last extracted drug list
    results,        \* analyze_gene_list: per-gene details
    disease_counts, \* analyze_gene_list: the tally, in dict insertion order
    common_diseases,\* analyze_gene_list: the ranked, capped tally
    reply,          \* what call_tool returned (or that it raised)
    lookups,        \* history: get_gene_info calls issued by this invocation
    kg_queries,     \* history: query_translator_kg calls issued
    lookup_log,     \* history: status of each lookup that returned
    gene_hits,      \* history: name -> genes whose extraction holds the name
    kg_response,    \* history: outcome of the last request to the graph service
    gather_log,     \* history: the gathered tasks in the order they completed
    other,          \* the frame of a second invocation, suspended at an await
    remote          \* the remote services' answers when two invocations run

vars == <<server, pc, tool, arguments, gene_symbols, idx, gene_symbol, gene_info,
          ncbi_response, kg_result, disease_raw, drug_raw, diseases, drugs,
          results, disease_counts, common_diseases, reply, lookups, kg_queries,
          lookup_log, gene_hits, kg_response, gather_log, other, remote>>

NoArguments == [gene_symbol |-> Absent, gene_symbols |-> <<>>,
                has_limit |-> FALSE, limit |-> 0]
NoReply == [kind |-> "none"]
NoKgResponse == KgOutcome("none", JsonNull)
NoFrame == [pc |-> "absent"]
NoRemote == [ncbi |-> <<>>, kg |-> <<>>]
TallyNames == Names \cup Ids \cup {"Unknown"}
NoHits == [n \in TallyNames |-> 0]

\* The locals of an invocation that has not started.
Fresh ==
    /\ tool = Absent
    /\ arguments = NoArguments
    /\ gene_symbols = <<>>
    /\ idx = 0
    /\ gene_symbol = Absent
    /\ gene_info = NoGeneInfo
    /\ ncbi_response = NoResponse
    /\ kg_result = KgPending
    /\ disease_raw = KgPending
    /\ drug_raw = KgPending
    /\ diseases = <<>>
    /\ drugs = <<>>
    /\ results = <<>>
    /\ disease_counts = <<>>
    /\ common_diseases = <<>>
    /\ reply = NoReply
    /\ lookups = 0
    /\ kg_queries = 0
    /\ lookup_log = <<>>
    /\ gene_hits = NoHits
    /\ kg_response = NoKgResponse
    /\ gather_log = <<>>

\* A single invocation runs: no second frame, the remote answers are free.
Alone ==
    /\ other = NoFrame
    /\ remote = NoRemote

\* ========================================= the extractor on bounded inputs
InitExtract ==
    /\ server \in Servers
    /\ pc = "extract"
    /\ \E doc \in AllKgResults :
         /\ kg_result = doc
         /\ tool = Absent
         /\ arguments = NoArguments
         /\ gene_symbols = <<>>
         /\ idx = 0
         /\ gene_symbol = Absent
         /\ gene_info = NoGeneInfo
         /\ ncbi_response = NoResponse
         /\ disease_raw = KgPending
         /\ drug_raw = KgPending
         /\ diseases = <<>>
         /\ drugs = <<>>
         /\ results = <<>>
         /\ disease_counts = <<>>
         /\ common_diseases = <<>>
         /\ reply = NoReply
         /\ lookups = 0
         /\ kg_queries = 0
         /\ lookup_log = <<>>
         /\ gene_hits = NoHits
         /\ kg_response = NoKgResponse
         /\ gather_log = <<>>
         /\ Alone

ExtractStep ==
    /\ pc = "extract"
    /\ LET out == ExtractAssociations(server, kg_result, TypeLabel(server, "Disease"))
       IN /\ diseases' = out.items
          /\ pc' = IF out.raised THEN "raised" ELSE "extracted"
    /\ UNCHANGED <<other, remote, kg_response, gather_log, server, tool, arguments, gene_symbols, idx, gene_symbol,
                   gene_info, ncbi_response, kg_result, disease_raw, drug_raw,
                   drugs, results, disease_counts, common_diseases, reply,
                   lookups, kg_queries, lookup_log, gene_hits>>

NextExtract == ExtractStep
SpecExtract == InitExtract /\ [][NextExtract]_vars


\* ---------------------------------------------------- extractor properties
\* The ids bound in the result rows of a document, flattened in row order.
RECURSIVE BoundIds(_)
BoundIds(rows) ==
    IF rows = <<>> THEN <<>>
    ELSE LET r == Head(rows)
             ids == IF r.kind = "row" THEN [k \in 1..Len(r.n1) |-> r.n1[k].id]
                    ELSE <<>>
         IN ids \o BoundIds(Tail(rows))

FirstPosition(seq, x) == CHOOSE k \in 1..Len(seq) :
                            seq[k] = x /\ \A m \in 1..(k - 1) : seq[m] # x

IsErrorMarker(r) == r.error # <<>>
IsRecordList(items) == \A k \in 1..Len(items) : ~IsErrorMarker(items[k])

\* C2: the extractor's list holds at most one record per distinct entity
\* id, however many rows or bindings reference the id, and the records stand
\* in the order in which their ids first appear in the result rows.
C2_OneRecordPerId ==
    (pc = "extracted" /\ IsRecordList(diseases)) =>
        /\ \A i, j \in 1..Len(diseases) :
             i # j => diseases[i].id # diseases[j].id
        /\ \A i, j \in 1..Len(diseases) :
             i < j => FirstPosition(BoundIds(kg_result.results), diseases[i].id)
                      < FirstPosition(BoundIds(kg_result.results), diseases[j].id)

\* The same statement for the two variants that test "Avoid duplicates".
C2_DedupVariantsOneRecordPerId ==
    server # "generic" => C2_OneRecordPerId

C2_Witness ==
    /\ pc = "extracted"
    /\ server # "generic"
    /\ Len(diseases) = 2
    /\ IsRecordList(diseases)
    /\ Len(BoundIds(kg_result.results)) > 2

\* C9: the extractor never raises: on every value the query client can
\* return it returns a list, which is a list of records (possibly empty) or
\* a one-element list holding one error-marker record.
C9_ExtractorNeverFails ==
    /\ pc # "raised"
    /\ pc = "extracted" =>
         \/ IsRecordList(diseases)
         \/ Len(diseases) = 1 /\ IsErrorMarker(diseases[1])


\* =========================================================== the handlers
\* Mutant: only not_found is turned away, an error value passes.
IsFoundOrError(info) == info.status # "not_found"

\* gene_info.get("status") == "found"
IsFound(info) == info.status = "found"

NotFoundReply(sym) == [kind |-> "text", text |-> <<"Could not find gene", sym>>]
RaisedReply(exc) == [kind |-> "raised", exception |-> exc]

\* disease.get("disease_name", "Unknown")
DiseaseName(disease) == IF disease.name # Absent THEN disease.name ELSE "Unknown"

\* disease_counts[name] = disease_counts.get(name, 0) + 1 on a dict that
\* keeps its keys in insertion order.
CountOne(counts, name) ==
    IF \E k \in 1..Len(counts) : counts[k].name = name
    THEN [k \in 1..Len(counts) |->
            IF counts[k].name = name
            THEN [name |-> name, count |-> counts[k].count + 1]
            ELSE counts[k]]
    ELSE Append(counts, [name |-> name, count |-> 1])

\* for disease in diseases: count its name
RECURSIVE CountAll(_, _)
CountAll(counts, items) ==
    IF items = <<>> THEN counts
    ELSE CountAll(CountOne(counts, DiseaseName(Head(items))), Tail(items))

\* Mutant: an unstable descending sort, ties come out in reverse.
InsertDescUnstable(sorted, e) ==
    LET ahead == Cardinality({k \in 1..Len(sorted) : sorted[k].count > e.count})
    IN SubSeq(sorted, 1, ahead) \o <<e>> \o SubSeq(sorted, ahead + 1, Len(sorted))

\* sorted(items, key=count, reverse=True): stable, so an entry goes behind
\* every entry already placed whose count is not smaller.
InsertDesc(sorted, e) ==
    LET ahead == Cardinality({k \in 1..Len(sorted) : sorted[k].count >= e.count})
    IN SubSeq(sorted, 1, ahead) \o <<e>> \o SubSeq(sorted, ahead + 1, Len(sorted))

RECURSIVE SortedDesc(_)
SortedDesc(counts) ==
    IF counts = <<>> THEN <<>>
    ELSE InsertDesc(SortedDesc(SubSeq(counts, 1, Len(counts) - 1)),
                    counts[Len(counts)])

\* sorted(...)[:10]
RankCommon(counts) == SliceTo(SortedDesc(counts), TopK)

\* gene_symbols = [g.upper() for g in gene_symbols[:limit]]
Truncate(symbols, limit) ==
    LET kept == SliceTo(symbols, limit)
    IN [k \in 1..Len(kept) |-> Upper(kept[k])]

\* arguments.get("limit", 5)
LimitOf(args) == IF args.has_limit THEN args.limit ELSE DefaultLimit

Report(symbols, counts, details) ==
    [kind |-> "report", genes_analyzed |-> symbols,
     common_diseases |-> RankCommon(counts), details |-> details]

Detail(sym, info, n) == [gene |-> sym, entrez_id |-> info.entrez_id, disease_count |-> n]

\* The names one gene's extraction surfaces, each counted once.
HitsAfter(hits, items) ==
    [n \in TallyNames |->
        hits[n] + IF \E k \in 1..Len(items) : items[k].name = n THEN 1 ELSE 0]

Init ==
    /\ server \in Servers
    /\ pc = "idle"
    /\ Fresh
    /\ Alone

SingleGeneArgs(sym) == [gene_symbol |-> sym, gene_symbols |-> <<>>,
                        has_limit |-> FALSE, limit |-> 0]

\* The entry of a single-gene tool up to the await inside get_gene_info.
StartLookup(name, sym) ==
    /\ pc = "idle"
    /\ tool' = name
    /\ arguments' = SingleGeneArgs(sym)
    /\ gene_symbol' = Upper(sym)
    /\ lookups' = lookups + 1
    /\ pc' = "await_lookup"
    /\ UNCHANGED <<other, remote, kg_response, gather_log, server, gene_symbols, idx, gene_info, ncbi_response, kg_result,
                   disease_raw, drug_raw, diseases, drugs, results, disease_counts,
                   common_diseases, reply, kg_queries, lookup_log, gene_hits>>

CallFindGeneInteractions ==
    /\ server = "drugdisease"
    /\ \E sym \in Symbols : StartLookup("find_gene_interactions", sym)

CallFindGeneDiseases ==
    /\ server \in {"diseaseEntity", "generic"}
    /\ \E sym \in Symbols : StartLookup("find_gene_diseases", sym)

CallGetGeneInfo ==
    /\ server \in {"diseaseEntity", "generic"}
    /\ \E sym \in Symbols : StartLookup("get_gene_info", sym)

\* else: raise ValueError(f"Unknown tool: {name}")
CallUnknownTool ==
    /\ pc = "idle"
    /\ \E name \in {"find_gene_interactions", "find_gene_diseases", "analyze_gene_list"} :
         /\ (server = "drugdisease") # (name = "find_gene_interactions")
         /\ tool' = name
    /\ reply' = RaisedReply("ValueError")
    /\ pc' = "done"
    /\ UNCHANGED <<other, remote, kg_response, gather_log, server, arguments, gene_symbols, idx, gene_symbol, gene_info,
                   ncbi_response, kg_result, disease_raw, drug_raw, diseases, drugs,
                   results, disease_counts, common_diseases, lookups, kg_queries,
                   lookup_log, gene_hits>>

\* The lookup of the single-gene tools returns.
LookupReturns(name) ==
    /\ pc = "await_lookup"
    /\ tool = name
    /\ \E o \in NcbiOutcomes :
         /\ ncbi_response' = o
         /\ gene_info' = GetGeneInfo(server, gene_symbol, o)
    /\ lookup_log' = Append(lookup_log, gene_info'.status)

LookupReturnInteractions ==
    /\ LookupReturns("find_gene_interactions")
    /\ IF ~IsFound(gene_info')
       THEN /\ reply' = NotFoundReply(gene_symbol)
            /\ pc' = "done"
            /\ UNCHANGED kg_queries
       ELSE /\ kg_queries' = kg_queries + 2
            /\ pc' = "await_gather"
            /\ UNCHANGED reply
    /\ UNCHANGED <<other, remote, kg_response, gather_log, server, tool, arguments, gene_symbols, idx, gene_symbol, kg_result,
                   disease_raw, drug_raw, diseases, drugs, results, disease_counts,
                   common_diseases, lookups, gene_hits>>

\* One task of the gather has finished: which one, and what its POST did.
Completed(task, o) == [task |-> task, response |-> o]

\* Mutant: the gather resumes the handler as soon as one task has finished.
GatherRaced == disease_raw # KgPending \/ drug_raw # KgPending

\* await asyncio.gather(task1, task2): resumed when both tasks have a result.
GatherJoined == disease_raw # KgPending /\ drug_raw # KgPending

DiseaseTaskReturn ==
    /\ pc = "await_gather"
    /\ disease_raw = KgPending
    /\ \E o \in KgOutcomes :
         /\ disease_raw' = QueryTranslatorKg(server, o)
         /\ gather_log' = Append(gather_log, Completed("Disease", o))
    /\ UNCHANGED <<other, remote, kg_response, server, pc, tool, arguments, gene_symbols, idx, gene_symbol,
                   gene_info, ncbi_response, kg_result, drug_raw, diseases, drugs,
                   results, disease_counts, common_diseases, reply, lookups,
                   kg_queries, lookup_log, gene_hits>>

DrugTaskReturn ==
    /\ pc = "await_gather"
    /\ drug_raw = KgPending
    /\ \E o \in KgOutcomes :
         /\ drug_raw' = QueryTranslatorKg(server, o)
         /\ gather_log' = Append(gather_log, Completed("Drug", o))
    /\ UNCHANGED <<other, remote, kg_response, server, pc, tool, arguments, gene_symbols, idx, gene_symbol,
                   gene_info, ncbi_response, kg_result, disease_raw, diseases, drugs,
                   results, disease_counts, common_diseases, reply, lookups,
                   kg_queries, lookup_log, gene_hits>>

\* Mutant: the counts are taken from the lists as displayed.
InteractionsReplyCountShown(sym, info, ds, dr) ==
    [kind |-> "interactions", gene |-> sym, entrez_id |-> info.entrez_id,
     disease_count |-> Len(SliceTo(ds, DisplayCap)),
     drug_count |-> Len(SliceTo(dr, DisplayCap)),
     top_diseases |-> SliceTo(ds, DisplayCap), top_drugs |-> SliceTo(dr, DisplayCap)]

InteractionsReply(sym, info, ds, dr) ==
    [kind |-> "interactions", gene |-> sym, entrez_id |-> info.entrez_id,
     disease_count |-> Len(ds), drug_count |-> Len(dr),
     top_diseases |-> SliceTo(ds, DisplayCap), top_drugs |-> SliceTo(dr, DisplayCap)]

\* asyncio.gather has both results: extract, assemble, return.
GatherResume ==
    /\ pc = "await_gather"
    /\ GatherJoined
    /\ LET d == ExtractAssociations(server, disease_raw, TypeLabel(server, "Disease"))
           g == ExtractAssociations(server, drug_raw, TypeLabel(server, "Drug"))
       IN IF d.raised
          THEN /\ reply' = RaisedReply("TypeError")
               /\ UNCHANGED <<diseases, drugs>>
          ELSE IF g.raised
          THEN /\ reply' = RaisedReply("TypeError")
               /\ diseases' = d.items
               /\ UNCHANGED drugs
          ELSE /\ diseases' = d.items
               /\ drugs' = g.items
               /\ reply' = InteractionsReply(gene_symbol, gene_info, d.items, g.items)
    /\ pc' = "done"
    /\ UNCHANGED <<other, remote, kg_response, gather_log, server, tool, arguments, gene_symbols, idx, gene_symbol, gene_info,
                   ncbi_response, kg_result, disease_raw, drug_raw, results,
                   disease_counts, common_diseases, lookups, kg_queries, lookup_log,
                   gene_hits>>


LookupReturnDiseases ==
    /\ LookupReturns("find_gene_diseases")
    /\ IF ~IsFound(gene_info')
       THEN /\ reply' = NotFoundReply(gene_symbol)
            /\ pc' = "done"
            /\ UNCHANGED kg_queries
       ELSE /\ kg_queries' = kg_queries + 1
            /\ pc' = "await_kg"
            /\ UNCHANGED reply
    /\ UNCHANGED <<other, remote, kg_response, gather_log, server, tool, arguments, gene_symbols, idx, gene_symbol, kg_result,
                   disease_raw, drug_raw, diseases, drugs, results, disease_counts,
                   common_diseases, lookups, gene_hits>>

\* diseases[:20] in the diseaseEntity variant, the whole list in generic.
DiseasesReply(sv, sym, info, ds) ==
    [kind |-> "diseases", gene |-> sym, entrez_id |-> info.entrez_id,
     disease_associations |-> IF sv = "generic" THEN ds ELSE SliceTo(ds, DiseaseCap),
     total_diseases_found |-> Len(ds)]

KgReturnDiseases ==
    /\ pc = "await_kg"
    /\ tool = "find_gene_diseases"
    /\ \E o \in KgOutcomes :
         /\ kg_response' = o
         /\ kg_result' = QueryTranslatorKg(server, o)
    /\ LET out == ExtractAssociations(server, kg_result', TypeLabel(server, "Disease"))
       IN IF out.raised
          THEN /\ reply' = RaisedReply("TypeError")
               /\ UNCHANGED diseases
          ELSE /\ diseases' = out.items
               /\ reply' = DiseasesReply(server, gene_symbol, gene_info, out.items)
    /\ pc' = "done"
    /\ UNCHANGED <<other, remote, gather_log, server, tool, arguments, gene_symbols, idx, gene_symbol, gene_info,
                   ncbi_response, disease_raw, drug_raw, drugs, results,
                   disease_counts, common_diseases, lookups, kg_queries, lookup_log,
                   gene_hits>>

\* The get_gene_info tool: the lookup value itself is the reply.
LookupReturnInfo ==
    /\ LookupReturns("get_gene_info")
    /\ reply' = [kind |-> "gene_info", gene_info |-> gene_info']
    /\ pc' = "done"
    /\ UNCHANGED <<other, remote, kg_response, gather_log, server, tool, arguments, gene_symbols, idx, gene_symbol, kg_result,
                   disease_raw, drug_raw, diseases, drugs, results, disease_counts,
                   common_diseases, lookups, kg_queries, gene_hits>>

\* ------------------------------------------------------ analyze_gene_list
Limits == (0 - MaxNegLimit)..MaxLimit

\* Mutant: the batch ends at the first gene that leaves the loop body.
LoopOnAborting(details, counts) ==
    /\ results' = details
    /\ disease_counts' = counts
    /\ common_diseases' = RankCommon(counts)
    /\ reply' = Report(gene_symbols, counts, details)
    /\ pc' = "done"
    /\ UNCHANGED <<idx, gene_symbol, lookups>>

\* The for loop moves on from position idx with the given details and
\* tally: the next lookup is issued, or the loop is over and the report is
\* built and returned.
LoopOn(details, counts) ==
    /\ results' = details
    /\ disease_counts' = counts
    /\ IF idx < Len(gene_symbols)
       THEN /\ idx' = idx + 1
            /\ gene_symbol' = gene_symbols[idx + 1]
            /\ lookups' = lookups + 1
            /\ pc' = "await_lookup"
            /\ UNCHANGED <<common_diseases, reply>>
       ELSE /\ common_diseases' = RankCommon(counts)
            /\ reply' = Report(gene_symbols, counts, details)
            /\ pc' = "done"
            /\ UNCHANGED <<idx, gene_symbol, lookups>>

CallAnalyzeGeneList ==
    /\ pc = "idle"
    /\ server \in {"diseaseEntity", "generic"}
    /\ tool' = "analyze_gene_list"
    /\ \E hl \in BOOLEAN, lim \in Limits, gs \in SeqsUpTo(Symbols, MaxGenes) :
         /\ hl \/ lim = 0
         /\ arguments' = [gene_symbol |-> Absent, gene_symbols |-> gs,
                          has_limit |-> hl, limit |-> lim]
    /\ gene_symbols' = Truncate(arguments'.gene_symbols, LimitOf(arguments'))
    /\ IF gene_symbols' # <<>>
       THEN /\ idx' = 1
            /\ gene_symbol' = gene_symbols'[1]
            /\ lookups' = lookups + 1
            /\ pc' = "await_lookup"
            /\ UNCHANGED <<common_diseases, reply>>
       ELSE /\ common_diseases' = RankCommon(<<>>)
            /\ reply' = Report(gene_symbols', <<>>, <<>>)
            /\ pc' = "done"
            /\ UNCHANGED <<idx, gene_symbol, lookups>>
    /\ UNCHANGED <<other, remote, kg_response, gather_log, server, gene_info, ncbi_response, kg_result, disease_raw, drug_raw,
                   diseases, drugs, results, disease_counts, kg_queries, lookup_log,
                   gene_hits>>

LookupReturnAnalyze ==
    /\ LookupReturns("analyze_gene_list")
    /\ IF IsFound(gene_info')
       THEN /\ kg_queries' = kg_queries + 1
            /\ pc' = "await_kg"
            /\ UNCHANGED <<results, disease_counts, common_diseases, reply, idx,
                           gene_symbol, lookups>>
       ELSE /\ LoopOn(results, disease_counts)
            /\ UNCHANGED kg_queries
    /\ UNCHANGED <<other, remote, kg_response, gather_log, server, tool, arguments, gene_symbols, kg_result, disease_raw,
                   drug_raw, diseases, drugs, gene_hits>>

KgReturnAnalyze ==
    /\ pc = "await_kg"
    /\ tool = "analyze_gene_list"
    /\ \E o \in KgOutcomes :
         /\ kg_response' = o
         /\ kg_result' = QueryTranslatorKg(server, o)
    /\ LET out == ExtractAssociations(server, kg_result', TypeLabel(server, "Disease"))
       IN IF out.raised
          THEN /\ reply' = RaisedReply("TypeError")
               /\ pc' = "done"
               /\ UNCHANGED <<diseases, results, disease_counts, common_diseases,
                              idx, gene_symbol, lookups, gene_hits>>
          ELSE /\ diseases' = out.items
               /\ gene_hits' = HitsAfter(gene_hits, out.items)
               /\ LoopOn(Append(results, Detail(gene_symbol, gene_info, Len(out.items))),
                         CountAll(disease_counts, out.items))
    /\ UNCHANGED <<other, remote, gather_log, server, tool, arguments, gene_symbols, gene_info, ncbi_response,
                   disease_raw, drug_raw, drugs, kg_queries, lookup_log>>

\* The reply has gone out; the locals of the invocation are gone with it.
Return ==
    /\ pc = "done"
    /\ pc' = "idle"
    /\ tool' = Absent
    /\ arguments' = NoArguments
    /\ gene_symbols' = <<>>
    /\ idx' = 0
    /\ gene_symbol' = Absent
    /\ gene_info' = NoGeneInfo
    /\ ncbi_response' = NoResponse
    /\ kg_result' = KgPending
    /\ disease_raw' = KgPending
    /\ drug_raw' = KgPending
    /\ diseases' = <<>>
    /\ drugs' = <<>>
    /\ results' = <<>>
    /\ disease_counts' = <<>>
    /\ common_diseases' = <<>>
    /\ reply' = NoReply
    /\ lookups' = 0
    /\ kg_queries' = 0
    /\ lookup_log' = <<>>
    /\ gene_hits' = NoHits
    /\ kg_response' = NoKgResponse
    /\ gather_log' = <<>>
    /\ UNCHANGED <<other, remote, server>>

Next ==
    \/ CallFindGeneInteractions
    \/ CallFindGeneDiseases
    \/ CallGetGeneInfo
    \/ CallAnalyzeGeneList
    \/ CallUnknownTool
    \/ LookupReturnInteractions
    \/ DiseaseTaskReturn
    \/ DrugTaskReturn
    \/ GatherResume
    \/ LookupReturnDiseases
    \/ KgReturnDiseases
    \/ LookupReturnInfo
    \/ LookupReturnAnalyze
    \/ KgReturnAnalyze
    \/ Return

Spec == Init /\ [][Next]_vars


\* ============================================ the ranking on bounded tallies
\* A tally of n names, the k-th inserted being name k, with counts c.
Tally(n, c) == [k \in 1..n |-> [name |-> k, count |-> c[k]]]

InitRank ==
    /\ server = "diseaseEntity"
    /\ pc = "rank"
    /\ \E n \in 0..MaxTally : \E c \in [1..n -> 1..MaxCount] :
         disease_counts = Tally(n, c)
    /\ tool = "analyze_gene_list"
    /\ arguments = NoArguments
    /\ gene_symbols = <<>>
    /\ idx = 0
    /\ gene_symbol = Absent
    /\ gene_info = NoGeneInfo
    /\ ncbi_response = NoResponse
    /\ kg_result = KgPending
    /\ disease_raw = KgPending
    /\ drug_raw = KgPending
    /\ diseases = <<>>
    /\ drugs = <<>>
    /\ results = <<>>
    /\ common_diseases = <<>>
    /\ reply = NoReply
    /\ lookups = 0
    /\ kg_queries = 0
    /\ lookup_log = <<>>
    /\ gene_hits = NoHits
    /\ kg_response = NoKgResponse
    /\ gather_log = <<>>
    /\ Alone

RankStep ==
    /\ pc = "rank"
    /\ common_diseases' = RankCommon(disease_counts)
    /\ pc' = "ranked"
    /\ UNCHANGED <<other, remote, kg_response, gather_log, server, tool, arguments, gene_symbols, idx, gene_symbol, gene_info,
                   ncbi_response, kg_result, disease_raw, drug_raw, diseases, drugs,
                   results, disease_counts, reply, lookups, kg_queries, lookup_log,
                   gene_hits>>

NextRank == RankStep
SpecRank == InitRank /\ [][NextRank]_vars

\* Position at which a name was inserted into the tally.
InsertedAt(counts, name) == CHOOSE k \in 1..Len(counts) : counts[k].name = name

\* e stands before f in the ranking: larger count, or equal count and
\* inserted earlier.
RanksBefore(counts, e, f) ==
    \/ e.count > f.count
    \/ e.count = f.count /\ InsertedAt(counts, e.name) < InsertedAt(counts, f.name)

\* C7: the ranked output is the first min(10, n) entries of the tally in
\* descending count, entries of equal count in the order their names were
\* inserted into the tally.
C7_RankedTopK ==
    pc = "ranked" =>
        /\ Len(common_diseases) = Min(TopK, Len(disease_counts))
        /\ \A i \in 1..Len(common_diseases) :
             \E k \in 1..Len(disease_counts) : disease_counts[k] = common_diseases[i]
        /\ \A i, j \in 1..Len(common_diseases) :
             i < j => RanksBefore(disease_counts, common_diseases[i], common_diseases[j])
        /\ \A k \in 1..Len(disease_counts) :
             (\A i \in 1..Len(common_diseases) : common_diseases[i] # disease_counts[k])
             => \A i \in 1..Len(common_diseases) :
                  RanksBefore(disease_counts, common_diseases[i], disease_counts[k])

\* A tally of more than ten names with a tie between names inserted apart.
C7_Witness ==
    /\ pc = "ranked"
    /\ Len(disease_counts) > TopK
    /\ Len(common_diseases) = TopK
    /\ common_diseases[1].count = common_diseases[2].count
    /\ common_diseases[2].name > common_diseases[1].name + 1


\* ====================================================== handler properties
Last(seq) == seq[Len(seq)]
Analyzing == tool = "analyze_gene_list"

\* Value of a name in the tally (0 when the name is no key).
TallyValue(counts, name) ==
    IF \E k \in 1..Len(counts) : counts[k].name = name
    THEN counts[InsertedAt(counts, name)].count
    ELSE 0

\* C1: when the aggregation has finished, the tally value of every
\* association display name equals the number of resolved genes whose
\* extracted associations contain the name; no gene adds more than 1 to a
\* name.
C1_TallyIsGeneCount ==
    (Analyzing /\ reply.kind = "report") =>
        \A n \in Names \cup Ids : TallyValue(disease_counts, n) = gene_hits[n]

\* C3: analyze_gene_list never issues more than limit identifier lookups
\* (none at all for a limit below 1), whatever the list and the limit.
C3_LookupsWithinLimit ==
    Analyzing => lookups <= Max(LimitOf(arguments), 0)

\* The drug query came back as the client's error value, the disease query
\* as a document with at least one association.
DrugQueryFailed == drug_raw.has_error /\ drug_raw.error[1] = "Connection error"
DiseaseQueryGood == disease_raw \in {DocXY, DocDupX, DocSameName}

\* C4: in find_gene_interactions, when the drug query failed in transport
\* and the disease query brought at least one association, the call ends
\* with a summary whose top_diseases is populated and whose top_drugs is
\* empty, and raises nothing.
C4_DrugFailureContained ==
    (tool = "find_gene_interactions" /\ pc = "done"
       /\ DrugQueryFailed /\ DiseaseQueryGood) =>
        /\ reply.kind = "interactions"
        /\ reply.top_diseases # <<>>
        /\ reply.top_drugs = <<>>

\* C5: in find_gene_interactions and find_gene_diseases a lookup that
\* returns not_found or error ends the call with the not-found message and
\* no graph query; every graph query follows a lookup of the same
\* invocation that returned found.
C5_NoQueryUnlessFound ==
    tool \in {"find_gene_interactions", "find_gene_diseases"} =>
        /\ (kg_queries > 0 \/ pc \in {"await_kg", "await_gather"}) =>
             (lookup_log # <<>> /\ Last(lookup_log) = "found")
        /\ (lookup_log # <<>> /\ Last(lookup_log) # "found") =>
             /\ kg_queries = 0
             /\ pc = "done"
             /\ reply = NotFoundReply(gene_symbol)

C5_Witness ==
    /\ tool = "find_gene_interactions"
    /\ lookup_log = <<"error">>
    /\ reply.kind = "text"
    /\ kg_queries = 0

\* The first n entries of a list (none for n below 1), upper-cased as the
\* handler upper-cases every symbol it keeps.
FirstEntries(symbols, n) ==
    [k \in 1..Min(Max(n, 0), Len(symbols)) |-> Upper(symbols[k])]

\* C6: genes_analyzed is the first limit entries of the input list in input
\* order, and the detail list holds one entry per resolved retained symbol
\* in that order: exactly one per retained symbol when all resolve.
C6_InputOrderKept ==
    (Analyzing /\ reply.kind = "report") =>
        LET kept == FirstEntries(arguments.gene_symbols, LimitOf(arguments))
        IN /\ reply.genes_analyzed = kept
           /\ (\A k \in 1..Len(lookup_log) : lookup_log[k] = "found") =>
                /\ Len(reply.details) = Len(kept)
                /\ \A k \in 1..Len(kept) : reply.details[k].gene = kept[k]

\* A lookup of analyze_gene_list returns with a status other than found.
UnresolvedStep ==
    /\ Analyzing
    /\ pc = "await_lookup"
    /\ Len(lookup_log') = Len(lookup_log) + 1
    /\ Last(lookup_log') # "found"

\* Nothing is recorded for the gene and the loop goes on.
SkippedAndContinued ==
    /\ results' = results
    /\ disease_counts' = disease_counts
    /\ kg_queries' = kg_queries
    /\ IF idx < Len(gene_symbols)
       THEN /\ pc' = "await_lookup"
            /\ idx' = idx + 1
            /\ lookups' = lookups + 1
            /\ reply' = NoReply
       ELSE /\ pc' = "done"
            /\ reply'.kind = "report"
            /\ reply'.details = results
            /\ reply'.common_diseases = RankCommon(disease_counts)

\* Positions of the retained list whose lookup returned found.
ResolvedPositions == {k \in 1..Len(lookup_log) : lookup_log[k] = "found"}

DetailsOnlyOfResolved ==
    (Analyzing /\ reply.kind = "report") =>
        /\ Len(reply.details) = Cardinality(ResolvedPositions)
        /\ \A d \in 1..Len(reply.details) :
             \E k \in ResolvedPositions : reply.details[d].gene = gene_symbols[k]

\* C8: in analyze_gene_list a retained gene whose lookup does not return
\* found adds no detail entry, leaves the tally as it is and does not end
\* the batch: the next retained gene is looked up, or, after the last one,
\* the report is returned; the details of a report are those of the
\* resolved genes only.
C8_UnresolvedGeneSkipped ==
    /\ [][UnresolvedStep => SkippedAndContinued]_vars
    /\ []DetailsOnlyOfResolved

\* A not_found gene, then an error gene, then a resolved one, reported.
C8_Witness ==
    /\ Analyzing
    /\ reply.kind = "report"
    /\ lookup_log = <<"not_found", "error", "found">>
    /\ Len(reply.details) = 1
    /\ reply.common_diseases # <<>>

\* C10: get_gene_info turns every transport, timeout, status or parse
\* failure of its request into a value with status error and an error
\* detail, raises nothing, and its value carries an identifier exactly when
\* its status is found.
C10_FailureIsData ==
    ncbi_response # NoResponse =>
        /\ gene_info.status \in {"found", "not_found", "error"}
        /\ ncbi_response.kind # "ok" =>
             (gene_info.status = "error" /\ gene_info.error # <<>>)
        /\ gene_info.status = "error" => gene_info.error # <<>>
        /\ (gene_info.entrez_id # Absent) <=> (gene_info.status = "found")
        /\ (tool = "get_gene_info" /\ pc = "done") =>
             reply = [kind |-> "gene_info", gene_info |-> gene_info]

C10_Witness ==
    /\ tool = "get_gene_info"
    /\ pc = "done"
    /\ ncbi_response.kind = "timeout"
    /\ reply.kind = "gene_info"
    /\ reply.gene_info.status = "error"

\* ---------------------------------------------------- the gather (join)
\* The tasks of the gather that have completed so far.
LoggedTasks == {gather_log[k].task : k \in 1..Len(gather_log)}

\* What the POST of a completed task did.
TaskResponse(task) ==
    gather_log[CHOOSE k \in 1..Len(gather_log) : gather_log[k].task = task].response

\* A task's result is pending until the task completes, and from then on it
\* is the client's value for the task's own response.
BranchOwnResult(task, raw) ==
    IF task \in LoggedTasks
    THEN raw = QueryTranslatorKg(server, TaskResponse(task))
    ELSE raw = KgPending

\* The summary the two raw results call for.
SummaryOf(d_raw, g_raw) ==
    LET d == ExtractAssociations(server, d_raw, TypeLabel(server, "Disease"))
        g == ExtractAssociations(server, g_raw, TypeLabel(server, "Drug"))
    IN IF d.raised \/ g.raised THEN RaisedReply("TypeError")
       ELSE InteractionsReply(gene_symbol, gene_info, d.items, g.items)

\* C11: in find_gene_interactions the disease and the drug query are
\* started together, before either result is used; the summary is assembled
\* only after both tasks have completed or failed, whichever completes
\* first; each task's result is the client's value for its own response,
\* whatever the other task did, and a failed task does not cancel the other.
C11_GatherIsJoin ==
    tool = "find_gene_interactions" =>
        /\ kg_queries \in {0, 2}
        /\ pc = "await_gather" =>
             /\ kg_queries = 2
             /\ reply = NoReply
             /\ diseases = <<>>
             /\ drugs = <<>>
        /\ Len(gather_log) = Cardinality(LoggedTasks)
        /\ BranchOwnResult("Disease", disease_raw)
        /\ BranchOwnResult("Drug", drug_raw)
        /\ (pc = "done" /\ kg_queries = 2) =>
             /\ LoggedTasks = {"Disease", "Drug"}
             /\ reply = SummaryOf(QueryTranslatorKg(server, TaskResponse("Disease")),
                                  QueryTranslatorKg(server, TaskResponse("Drug")))

\* The drug task failed first, the disease task then brought a document,
\* and the summary shows its associations.
C11_Witness ==
    /\ tool = "find_gene_interactions"
    /\ pc = "done"
    /\ Len(gather_log) = 2
    /\ gather_log[1].task = "Drug"
    /\ gather_log[1].response.kind = "timeout"
    /\ gather_log[2].task = "Disease"
    /\ gather_log[2].response.kind = "ok"
    /\ reply.kind = "interactions"
    /\ Len(reply.top_diseases) = 2

\* ====================================== the query client on bounded outcomes
\* A 200 body that carries an "error" key beside its message.
DocWithErrorKey ==
    KgValue("dict", TRUE, <<"service", "partial">>, "dict", "list",
            <<OneRow("d1")>>, "dict", [i \in Ids |-> "X"])

\* The bodies a response can carry, and every outcome of the one POST: a
\* decoded body, a non-2xx response (whatever its body), a failure of the
\* transport, a body that does not decode.
ClientBodies == OddShapes \cup KgBodies \cup {DocWithErrorKey}
ClientOutcomes ==
    {KgOutcome("ok", b) : b \in ClientBodies}
    \cup {KgOutcome("http_error", b) : b \in ClientBodies}
    \cup {KgOutcome(k, JsonNull) : k \in KgFailureKinds \ {"http_error"}}

InitClient ==
    /\ server \in Servers
    /\ pc = "query"
    /\ kg_response \in ClientOutcomes
    /\ kg_result = KgPending
    /\ tool = Absent
    /\ arguments = NoArguments
    /\ gene_symbols = <<>>
    /\ idx = 0
    /\ gene_symbol = Absent
    /\ gene_info = NoGeneInfo
    /\ ncbi_response = NoResponse
    /\ disease_raw = KgPending
    /\ drug_raw = KgPending
    /\ diseases = <<>>
    /\ drugs = <<>>
    /\ results = <<>>
    /\ disease_counts = <<>>
    /\ common_diseases = <<>>
    /\ reply = NoReply
    /\ lookups = 0
    /\ kg_queries = 0
    /\ lookup_log = <<>>
    /\ gene_hits = NoHits
    /\ gather_log = <<>>
    /\ Alone

QueryStep ==
    /\ pc = "query"
    /\ kg_result' = QueryTranslatorKg(server, kg_response)
    /\ kg_queries' = kg_queries + 1
    /\ pc' = "queried"
    /\ UNCHANGED <<other, remote, kg_response, gather_log, server, tool, arguments,
                   gene_symbols, idx, gene_symbol, gene_info, ncbi_response,
                   disease_raw, drug_raw, diseases, drugs, results, disease_counts,
                   common_diseases, reply, lookups, lookup_log, gene_hits>>

NextClient == QueryStep
SpecClient == InitClient /\ [][NextClient]_vars

\* A dict whose only key is "error", holding a description.
IsErrorValue(v) ==
    /\ v.shape = "dict"
    /\ v.has_error
    /\ v.error # <<>>
    /\ v.message = Absent
    /\ v.results_kind = Absent
    /\ v.results = <<>>
    /\ v.graph = Absent
    /\ v.nodes = NoNodes

IsRowDocument(doc) ==
    /\ doc.shape = "dict"
    /\ ~doc.has_error
    /\ doc.message = "dict"
    /\ doc.results_kind = "list"
    /\ doc.graph = "dict"

\* The ids of the well-formed entries: bound with an id in a row that has
\* node bindings, and listed in the node catalogue.
WellFormedIds(doc) ==
    {i \in DOMAIN doc.nodes :
        /\ doc.nodes[i] # Absent
        /\ \E r \in 1..Len(doc.results) :
             /\ doc.results[r].kind = "row"
             /\ \E b \in 1..Len(doc.results[r].n1) :
                  /\ doc.results[r].n1[b].kind = "id"
                  /\ doc.results[r].n1[b].id = i}

\* No row and no binding of the document is of an unexpected shape.
OnlyMissingFields(doc) ==
    \A r \in 1..Len(doc.results) :
        /\ doc.results[r].kind # "nondict"
        /\ \A b \in 1..Len(doc.results[r].n1) : doc.results[r].n1[b].kind # "nondict"

RecordIds(items) == {items[k].id : k \in 1..Len(items)}

\* C13: on every document whose rows or bound nodes are in part malformed
\* (row without node bindings, binding without an id, id not in the
\* catalogue, row or binding of an unexpected shape) the extractor returns
\* the records of exactly the well-formed entries: no error marker, nothing
\* raised, nothing already extracted lost.
C13_MalformedEntriesSkipped ==
    (pc \in {"extracted", "raised"} /\ IsRowDocument(kg_result)) =>
        /\ pc = "extracted"
        /\ IsRecordList(diseases)
        /\ RecordIds(diseases) = WellFormedIds(kg_result)

\* The same statement for documents whose entries only lack fields.
C13_MissingFieldsSkipped ==
    OnlyMissingFields(kg_result) => C13_MalformedEntriesSkipped

\* One record survives a row without bindings and a binding without an id.
C13_Witness ==
    /\ pc = "extracted"
    /\ IsRowDocument(kg_result)
    /\ Len(kg_result.results) = 2
    /\ kg_result.results[1].kind = "no_bindings"
    /\ kg_result.results[2].kind = "row"
    /\ kg_result.results[2].n1[1].kind = "no_id"
    /\ Len(diseases) = 1
    /\ IsRecordList(diseases)

\* ================================== the summary on long association lists
\* A document of n rows, row k binding entity k; the catalogue lists every
\* entity without a name, so the id serves as its display name.
BigDoc(n) == KgDoc([k \in 1..n |-> OneRow(k)], [k \in 1..n |-> NoName])

FoundOutcome == NcbiOutcome("ok", "dict", "dict", "list", <<"348">>)

\* find_gene_interactions suspended in the gather, both tasks completed
\* with documents of up to MaxAssoc associations.
InitSummary ==
    /\ server = "drugdisease"
    /\ pc = "await_gather"
    /\ tool = "find_gene_interactions"
    /\ \E sym \in Symbols :
         /\ arguments = SingleGeneArgs(sym)
         /\ gene_symbol = Upper(sym)
         /\ gene_info = GetGeneInfo(server, Upper(sym), FoundOutcome)
    /\ ncbi_response = FoundOutcome
    /\ \E nd \in 0..MaxAssoc, ng \in 0..MaxAssoc :
         /\ disease_raw = QueryTranslatorKg(server, KgOutcome("ok", BigDoc(nd)))
         /\ drug_raw = QueryTranslatorKg(server, KgOutcome("ok", BigDoc(ng)))
         /\ gather_log = <<Completed("Disease", KgOutcome("ok", BigDoc(nd))),
                           Completed("Drug", KgOutcome("ok", BigDoc(ng)))>>
    /\ kg_result = KgPending
    /\ kg_response = NoKgResponse
    /\ gene_symbols = <<>>
    /\ idx = 0
    /\ diseases = <<>>
    /\ drugs = <<>>
    /\ results = <<>>
    /\ disease_counts = <<>>
    /\ common_diseases = <<>>
    /\ reply = NoReply
    /\ lookups = 1
    /\ kg_queries = 2
    /\ lookup_log = <<"found">>
    /\ gene_hits = NoHits
    /\ Alone

NextSummary == GatherResume
SpecSummary == InitSummary /\ [][NextSummary]_vars

\* C14: in the find_gene_interactions summary each category's displayed
\* list is the first min(15, n) records of the category's extracted list,
\* in extraction order, and the category's count is n, the length of the
\* whole extracted list, also when n exceeds 15.
C14_CapWithTrueCount ==
    (tool = "find_gene_interactions" /\ pc = "done" /\ reply.kind = "interactions") =>
        /\ diseases = ExtractAssociations(server, disease_raw, "Disease").items
        /\ drugs = ExtractAssociations(server, drug_raw, "Drug").items
        /\ reply.top_diseases = SubSeq(diseases, 1, Min(DisplayCap, Len(diseases)))
        /\ reply.top_drugs = SubSeq(drugs, 1, Min(DisplayCap, Len(drugs)))
        /\ reply.disease_count = Len(diseases)
        /\ reply.drug_count = Len(drugs)

\* More diseases than the cap, fewer drugs.
C14_Witness ==
    /\ pc = "done"
    /\ reply.kind = "interactions"
    /\ Len(diseases) > DisplayCap
    /\ Len(disease_raw.results) = Len(diseases)
    /\ Len(reply.top_diseases) = DisplayCap
    /\ reply.disease_count = Len(diseases)
    /\ reply.top_diseases[DisplayCap].id = DisplayCap
    /\ drugs # <<>>
    /\ Len(drugs) < DisplayCap
    /\ reply.top_drugs = drugs

\* ------------------------------------- a failed graph query in the batch
\* The names in the tally, and the names the graph service returned for
\* some gene of this invocation.
TallyKeys == {disease_counts[k].name : k \in 1..Len(disease_counts)}
ReturnedNames == {n \in TallyNames : gene_hits[n] > 0}

\* C15: in analyze_gene_list a resolved gene whose graph query fails in the
\* client has 0 as its association count in the details and adds no key to
\* the tally; every name of the tally and of the ranked output is a display
\* name the graph service returned for some analyzed gene, never a
\* placeholder standing for an error marker.
C15_FailedQueryCountsZero ==
    Analyzing =>
        /\ kg_response.kind \in KgFailureKinds =>
             (results # <<>> /\ Last(results).disease_count = 0)
        /\ TallyKeys \subseteq ReturnedNames
        /\ reply.kind = "report" =>
             \A k \in 1..Len(reply.common_diseases) :
                 reply.common_diseases[k].name \in ReturnedNames

\* =============================================== two invocations at once
\* The server library runs every tool request as its own call_tool
\* coroutine on one event loop: a coroutine runs from one await to the next,
\* and while it is suspended in a request another coroutine may run.  The
\* variables hold the frame of the running coroutine, "other" the frame of
\* the suspended one.  (The generic variant calls requests synchronously:
\* its call_tool has no await and is never interleaved.)
Running ==
    [pc |-> pc, tool |-> tool, arguments |-> arguments,
     gene_symbols |-> gene_symbols, idx |-> idx, gene_symbol |-> gene_symbol,
     gene_info |-> gene_info, ncbi_response |-> ncbi_response,
     kg_result |-> kg_result, disease_raw |-> disease_raw, drug_raw |-> drug_raw,
     diseases |-> diseases, drugs |-> drugs, results |-> results,
     disease_counts |-> disease_counts, common_diseases |-> common_diseases,
     reply |-> reply, lookups |-> lookups, kg_queries |-> kg_queries,
     lookup_log |-> lookup_log, gene_hits |-> gene_hits,
     kg_response |-> kg_response, gather_log |-> gather_log]

\* The frame of an invocation that has not started.
FreshFrame ==
    [pc |-> "idle", tool |-> Absent, arguments |-> NoArguments,
     gene_symbols |-> <<>>, idx |-> 0, gene_symbol |-> Absent,
     gene_info |-> NoGeneInfo, ncbi_response |-> NoResponse,
     kg_result |-> KgPending, disease_raw |-> KgPending, drug_raw |-> KgPending,
     diseases |-> <<>>, drugs |-> <<>>, results |-> <<>>,
     disease_counts |-> <<>>, common_diseases |-> <<>>,
     reply |-> NoReply, lookups |-> 0, kg_queries |-> 0,
     lookup_log |-> <<>>, gene_hits |-> NoHits,
     kg_response |-> NoKgResponse, gather_log |-> <<>>]

\* Mutant: the tally is a dict of the module, one for all invocations.
ModuleTally(frame) == disease_counts

\* disease_counts = {} is a local of call_tool: the resumed coroutine finds
\* the tally of its own frame.
FrameTally(frame) == frame.disease_counts

\* The remote services as two invocations see them: every request for the
\* same gene (and category) gets the same answer.
Categories == {"Disease", "Drug"}
GeneNames == {Upper(s) : s \in Symbols}
RemoteNcbi == {FoundOutcome, NcbiOutcome("timeout", Absent, Absent, Absent, <<>>)}
RemoteKg == {KgOutcome("ok", DocXY), KgOutcome("ok", DocSameName),
             KgOutcome("timeout", JsonNull)}
Remotes == [ncbi : [GeneNames -> RemoteNcbi],
            kg : [GeneNames -> [Categories -> RemoteKg]]]

InitConcurrent ==
    /\ server \in {"drugdisease", "diseaseEntity"}
    /\ pc = "idle"
    /\ Fresh
    /\ other = FreshFrame
    /\ remote \in Remotes
    /\ server = "diseaseEntity" =>
         \A g \in GeneNames : remote.kg[g]["Drug"] = remote.kg[g]["Disease"]

\* The running coroutine is suspended (or has not started, or has
\* returned) and the event loop resumes the other one.
Switch ==
    /\ other # NoFrame
    /\ pc \in {"idle", "await_lookup", "await_kg", "await_gather", "done"}
    /\ other' = Running
    /\ pc' = other.pc
    /\ tool' = other.tool
    /\ arguments' = other.arguments
    /\ gene_symbols' = other.gene_symbols
    /\ idx' = other.idx
    /\ gene_symbol' = other.gene_symbol
    /\ gene_info' = other.gene_info
    /\ ncbi_response' = other.ncbi_response
    /\ kg_result' = other.kg_result
    /\ disease_raw' = other.disease_raw
    /\ drug_raw' = other.drug_raw
    /\ diseases' = other.diseases
    /\ drugs' = other.drugs
    /\ results' = other.results
    /\ disease_counts' = FrameTally(other)
    /\ common_diseases' = other.common_diseases
    /\ reply' = other.reply
    /\ lookups' = other.lookups
    /\ kg_queries' = other.kg_queries
    /\ lookup_log' = other.lookup_log
    /\ gene_hits' = other.gene_hits
    /\ kg_response' = other.kg_response
    /\ gather_log' = other.gather_log
    /\ UNCHANGED <<server, remote>>

\* The handlers' steps, the remote answers being those of "remote".
ConcCallAnalyze ==
    /\ CallAnalyzeGeneList
    /\ ~arguments'.has_limit
    /\ Len(arguments'.gene_symbols) <= MaxConcGenes

ConcLookupAnalyze ==
    /\ LookupReturnAnalyze
    /\ ncbi_response' = remote.ncbi[gene_symbol]

ConcKgAnalyze ==
    /\ KgReturnAnalyze
    /\ kg_response' = remote.kg[gene_symbol]["Disease"]

ConcLookupInteractions ==
    /\ LookupReturnInteractions
    /\ ncbi_response' = remote.ncbi[gene_symbol]

ConcDiseaseTask ==
    /\ DiseaseTaskReturn
    /\ Last(gather_log').response = remote.kg[gene_symbol]["Disease"]

ConcDrugTask ==
    /\ DrugTaskReturn
    /\ Last(gather_log').response = remote.kg[gene_symbol]["Drug"]

NextConcurrent ==
    \/ ConcCallAnalyze
    \/ CallFindGeneInteractions
    \/ ConcLookupAnalyze
    \/ ConcKgAnalyze
    \/ ConcLookupInteractions
    \/ ConcDiseaseTask
    \/ ConcDrugTask
    \/ GatherResume
    \/ Return
    \/ Switch

SpecConcurrent == InitConcurrent /\ [][NextConcurrent]_vars

\* ------------------------------------------------ isolation of invocations
\* What analyze_gene_list computes for the symbols syms when it runs alone
\* against the answers of "remote": the details and the tally after the
\* last of them.
RECURSIVE AloneAnalyze(_)
AloneAnalyze(syms) ==
    IF syms = <<>> THEN [raised |-> FALSE, details |-> <<>>, counts |-> <<>>]
    ELSE LET before == AloneAnalyze(SubSeq(syms, 1, Len(syms) - 1))
             sym == syms[Len(syms)]
             info == GetGeneInfo(server, sym, remote.ncbi[sym])
             out == ExtractAssociations(server,
                        QueryTranslatorKg(server, remote.kg[sym]["Disease"]),
                        TypeLabel(server, "Disease"))
         IN IF before.raised \/ ~IsFound(info) THEN before
            ELSE IF out.raised
            THEN [raised |-> TRUE, details |-> before.details, counts |-> before.counts]
            ELSE [raised |-> FALSE,
                  details |-> Append(before.details, Detail(sym, info, Len(out.items))),
                  counts |-> CountAll(before.counts, out.items)]

\* What find_gene_interactions replies for the symbol sym when it runs alone.
AloneInteractions(sym) ==
    LET info == GetGeneInfo(server, sym, remote.ncbi[sym])
        d == ExtractAssociations(server,
                 QueryTranslatorKg(server, remote.kg[sym]["Disease"]),
                 TypeLabel(server, "Disease"))
        g == ExtractAssociations(server,
                 QueryTranslatorKg(server, remote.kg[sym]["Drug"]),
                 TypeLabel(server, "Drug"))
    IN IF ~IsFound(info) THEN NotFoundReply(sym)
       ELSE IF d.raised \/ g.raised THEN RaisedReply("TypeError")
       ELSE InteractionsReply(sym, info, d.items, g.items)

\* The frame of an aggregation holds, at every await and at its return,
\* the details and the tally of the symbols it has itself dealt with.
IsolatedAnalyze(frame) ==
    frame.tool = "analyze_gene_list" =>
        LET all == Truncate(frame.arguments.gene_symbols, LimitOf(frame.arguments))
            dealt == IF frame.pc = "done" THEN all
                     ELSE SubSeq(all, 1, frame.idx - 1)
            alone == AloneAnalyze(dealt)
        IN /\ frame.gene_symbols = all
           /\ frame.results = alone.details
           /\ frame.disease_counts = alone.counts
           /\ frame.pc = "await_kg" =>
                frame.gene_info = GetGeneInfo(server, frame.gene_symbol,
                                              remote.ncbi[frame.gene_symbol])
           /\ frame.pc = "done" =>
                frame.reply = IF alone.raised THEN RaisedReply("TypeError")
                              ELSE Report(all, alone.counts, alone.details)

IsolatedInteractions(frame) ==
    (frame.tool = "find_gene_interactions" /\ frame.pc = "done") =>
        frame.reply = AloneInteractions(frame.gene_symbol)

\* C16: when two tool requests interleave at their awaits, each one's
\* tally, detail list and reply are those the same request produces when it
\* runs alone against the same remote answers; nothing of one invocation
\* shows in the other, and an invocation that starts after another has
\* returned starts from nothing.
C16_InvocationsIsolated ==
    \A frame \in {Running, other} :
        /\ IsolatedAnalyze(frame)
        /\ IsolatedInteractions(frame)
        /\ frame.pc = "idle" => frame = FreshFrame

\* Two aggregations, each past its first gene and neither finished, with
\* different tallies.
C16_Witness ==
    /\ tool = "analyze_gene_list"
    /\ pc = "await_lookup"
    /\ idx = MaxConcGenes
    /\ disease_counts # <<>>
    /\ other.tool = "analyze_gene_list"
    /\ other.pc = "await_kg"
    /\ other.idx = MaxConcGenes
    /\ other.disease_counts # <<>>
    /\ other.disease_counts # disease_counts

=============================================================================
